---- MODULE Spec2Model ----
(***************************************************************************)
(* Matching, scoring and counterfactual engine of                          *)
(* backend/app/adk_agent/agent.py.                                         *)
(*                                                                         *)
(* Representation.                                                         *)
(*  - A Python str is a sequence of one-character strings, so that         *)
(*    lower(), strip(), startswith(), split() and the regular expression   *)
(*    of parse_years are computed and not assumed.                         *)
(*  - None (for a str-or-None value) is the constant None below, which no  *)
(*    sequence of one-character strings equals.                            *)
(*  - A Python dict is a function whose DOMAIN is the set of keys present. *)
(*  - Floats are fixed-point integers.  Weights are in units of 1e-6       *)
(*    (the code rounds them to 6 places), raw_score and the relevance      *)
(*    scores in units of 1e-4, percentages in units of 1e-2.  round() is   *)
(*    round-half-to-even on the exact value.                               *)
(*  - An f-string is a record naming the template and its arguments.       *)
(*  - A call that raises returns [raised |-> <exception type>].            *)
(***************************************************************************)
EXTENDS Integers, Sequences, FiniteSets, TLC

\* ------------------------------------------------------------------ bounds
MaxMust == 2
MaxNice == 1
MaxCvMust == 2
MidLong == 6
MaxLong == 124
MaxTopK == 3

\* ------------------------------------------------------------- Python str
None == <<"<None>">>

ToLower == [A |-> "a", B |-> "b", C |-> "c", D |-> "d", E |-> "e", F |-> "f",
            G |-> "g", H |-> "h", I |-> "i", J |-> "j", K |-> "k", L |-> "l",
            M |-> "m", N |-> "n", O |-> "o", P |-> "p", Q |-> "q", R |-> "r",
            S |-> "s", T |-> "t", U |-> "u", V |-> "v", W |-> "w", X |-> "x",
            Y |-> "y", Z |-> "z"]

Digits == [c \in {"0", "1", "2", "3", "4", "5", "6", "7", "8", "9"} |->
             CASE c = "0" -> 0 [] c = "1" -> 1 [] c = "2" -> 2 [] c = "3" -> 3
               [] c = "4" -> 4 [] c = "5" -> 5 [] c = "6" -> 6 [] c = "7" -> 7
               [] c = "8" -> 8 [] c = "9" -> 9]

\* str(x): a str is itself, None prints as "None"
Str(x) == IF x = None THEN <<"N", "o", "n", "e">> ELSE x

\* s.lower()
Lower(s) == [i \in 1..Len(s) |-> IF s[i] \in DOMAIN ToLower THEN ToLower[s[i]] ELSE s[i]]

\* s.strip()
Strip(s) ==
  LET nonWs == {i \in 1..Len(s) : s[i] # " "}
      Min(S) == CHOOSE m \in S : \A n \in S : m <= n
      Max(S) == CHOOSE m \in S : \A n \in S : m >= n
  IN IF nonWs = {} THEN <<>> ELSE SubSeq(s, Min(nonWs), Max(nonWs))

\* bool(x) of a str-or-None value
Truthy(x) == x # None /\ x # <<>>

LangPrefix == <<"l", "a", "n", "g", ":">>

\* name.startswith("lang:")
StartsWithLang(name) == Len(name) >= 5 /\ SubSeq(name, 1, 5) = LangPrefix

\* name.split(":", 1)[1], for a name that contains ":"
AfterFirstColon(name) ==
  LET cs == {i \in 1..Len(name) : name[i] = ":"}
      first == CHOOSE m \in cs : \A n \in cs : m <= n
  IN SubSeq(name, first + 1, Len(name))

\* d.get(k, default)
Get(d, k, default) == IF k \in DOMAIN d THEN d[k] ELSE default

\* [f(x) for x in xs]
Map(f(_), xs) == [i \in 1..Len(xs) |-> f(xs[i])]

\* x in xs, for a list xs
InList(x, xs) == \E i \in 1..Len(xs) : xs[i] = x

\* --------------------------------------------------------------- numbers
Abs(n) == IF n < 0 THEN -n ELSE n

\* round(n / d) for d > 0, ties to the even neighbour
RoundHalfEven(n, d) ==
  LET a == Abs(n)
      q == a \div d
      r == a % d
      m == IF 2 * r < d THEN q
           ELSE IF 2 * r > d THEN q + 1
           ELSE IF q % 2 = 0 THEN q ELSE q + 1
  IN IF n < 0 THEN -m ELSE m

\* s[lo] + ... + s[hi], by halves (integer addition is associative)
RECURSIVE SumRange(_, _, _)
SumRange(s, lo, hi) ==
  IF lo > hi THEN 0
  ELSE IF lo = hi THEN s[lo]
  ELSE SumRange(s, lo, (lo + hi) \div 2) + SumRange(s, (lo + hi) \div 2 + 1, hi)

\* sum(s)
SumSeq(s) == SumRange(s, 1, Len(s))

\* [x for x in xs if P(x)]
Filter(P(_), xs) == SelectSeq(xs, P)

\* ------------------------------------------------------- argument values
\* A tool argument is a dict or a str (isinstance(x, dict) is kind = "dict").
PyDict(d) == [kind |-> "dict", d |-> d]
PyStr(s) == [kind |-> "str", s |-> s]

YearsName == <<"y", "e", "a", "r", "s", "_", "e", "x", "p", "e", "r", "i", "e", "n", "c", "e">>
EduName == <<"e", "d", "u", "c", "a", "t", "i", "o", "n", "_", "l", "e", "v", "e", "l">>

NoEvidence == [fmt |-> "None"]

\* -------------------------------------------------- parse_years (186-192)
RECURSIVE DigitsValue(_)
DigitsValue(ds) ==
  IF ds = <<>> THEN 0 ELSE 10 * DigitsValue(SubSeq(ds, 1, Len(ds) - 1)) + Digits[ds[Len(ds)]]

RECURSIVE Pow10(_)
Pow10(n) == IF n = 0 THEN 1 ELSE 10 * Pow10(n - 1)

\* the last index of the run of digits that starts at i
RECURSIVE DigitRunEnd(_, _)
DigitRunEnd(s, i) ==
  IF i < Len(s) /\ s[i + 1] \in DOMAIN Digits THEN DigitRunEnd(s, i + 1) ELSE i

\* The number whose integer part is s[i..j] and whose fraction is s[j+2..k]
\* (k = j when there is no fraction), as <<numerator, denominator>>.
NumberAt(s, i, j, k) ==
  IF k > j
  THEN <<DigitsValue(SubSeq(s, i, j)) * Pow10(k - j - 1) + DigitsValue(SubSeq(s, j + 2, k)),
         Pow10(k - j - 1)>>
  ELSE <<DigitsValue(SubSeq(s, i, j)), 1>>

\* The match of \d+(?:\.\d+)? that starts at the digit s[i] and whose
\* integer part ends at s[j].
MatchFrom(s, i, j) ==
  IF j + 2 <= Len(s) /\ s[j + 1] = "." /\ s[j + 2] \in DOMAIN Digits
  THEN NumberAt(s, i, j, DigitRunEnd(s, j + 2))
  ELSE NumberAt(s, i, j, j)

\* nums[0] if nums else None, for nums = re.findall(r"\d+(?:\.\d+)?", s);
\* <<>> stands for None
FirstNumber(s) ==
  LET ds == {i \in 1..Len(s) : s[i] \in DOMAIN Digits}
      first == CHOOSE m \in ds : \A n \in ds : m <= n
  IN IF ds = {} THEN <<>> ELSE MatchFrom(s, first, DigitRunEnd(s, first))

parse_years(text) == FirstNumber(Lower(Str(text)))

\* cv_y >= jd_y for two parsed numbers
\* cv_y > jd_y in place of cv_y >= jd_y
YearsGeq_Strict(cv_y, jd_y) == cv_y[1] * jd_y[2] > jd_y[1] * cv_y[2]

YearsGeq(cv_y, jd_y) == cv_y[1] * jd_y[2] >= jd_y[1] * cv_y[2]

\* ------------------------------------------- build_cv_jd_match (134-252)
\* the raw requirements with the nice_to_have loop ahead of the must_have loop
RawReqs_NiceFirst(jd_skills) ==
  LET jd_must == Map(LAMBDA x : Lower(Str(x)), Get(jd_skills, "must_have", <<>>))
      jd_nice == Map(LAMBDA x : Lower(Str(x)), Get(jd_skills, "nice_to_have", <<>>))
      jd_langs == Map(LAMBDA x : Lower(Str(x)), Get(jd_skills, "languages", <<>>))
      jd_years == Get(jd_skills, "years_experience", None)
      jd_edu == Get(jd_skills, "education_level", None)
  IN Map(LAMBDA n : [name |-> n, weight |-> 10, must_have |-> FALSE], jd_nice)
     \o Map(LAMBDA n : [name |-> n, weight |-> 20, must_have |-> TRUE], jd_must)
     \o Map(LAMBDA n : [name |-> LangPrefix \o n, weight |-> 5, must_have |-> FALSE], jd_langs)
     \o (IF Truthy(jd_years) THEN <<[name |-> YearsName, weight |-> 10, must_have |-> FALSE]>> ELSE <<>>)
     \o (IF Truthy(jd_edu) THEN <<[name |-> EduName, weight |-> 8, must_have |-> FALSE]>> ELSE <<>>)

\* lines 155-165: the raw requirements, weights in tenths
RawReqs(jd_skills) ==
  LET jd_must == Map(LAMBDA x : Lower(Str(x)), Get(jd_skills, "must_have", <<>>))
      jd_nice == Map(LAMBDA x : Lower(Str(x)), Get(jd_skills, "nice_to_have", <<>>))
      jd_langs == Map(LAMBDA x : Lower(Str(x)), Get(jd_skills, "languages", <<>>))
      jd_years == Get(jd_skills, "years_experience", None)
      jd_edu == Get(jd_skills, "education_level", None)
  IN Map(LAMBDA n : [name |-> n, weight |-> 20, must_have |-> TRUE], jd_must)
     \o Map(LAMBDA n : [name |-> n, weight |-> 10, must_have |-> FALSE], jd_nice)
     \o Map(LAMBDA n : [name |-> LangPrefix \o n, weight |-> 5, must_have |-> FALSE], jd_langs)
     \o (IF Truthy(jd_years) THEN <<[name |-> YearsName, weight |-> 10, must_have |-> FALSE]>> ELSE <<>>)
     \o (IF Truthy(jd_edu) THEN <<[name |-> EduName, weight |-> 8, must_have |-> FALSE]>> ELSE <<>>)

\* line 174: round(float(r["weight"]) / total_weight, 6), in units of 1e-6
NormWeight(w, total_weight) == RoundHalfEven(w * 1000000, total_weight)

\* lines 167-176: the normalized requirement list
Normalize(reqs) ==
  LET s == SumSeq(Map(LAMBDA r : r.weight, reqs))
      total_weight == IF s = 0 THEN 10 ELSE s
  IN Map(LAMBDA r : [name |-> r.name,
                     weight |-> NormWeight(r.weight, total_weight),
                     must_have |-> r.must_have], reqs)

\* lines 199-200, 205-206, 219-220: evidence is set only when matched
Verdict(matched, evidence) ==
  [matched |-> matched, evidence |-> IF matched THEN evidence ELSE NoEvidence]

\* lines 208-212
YearsVerdict(jd_y, cv_y) ==
  [matched |-> jd_y = <<>> \/ (cv_y # <<>> /\ YearsGeq(cv_y, jd_y)),
   evidence |-> IF jd_y # <<>> /\ cv_y # <<>> /\ YearsGeq(cv_y, jd_y)
                THEN [fmt |-> "years", a |-> <<cv_y, jd_y>>] ELSE NoEvidence]

\* lines 214-216
EduVerdict(jd_edu, cv_edu) ==
  IF ~Truthy(jd_edu) THEN [matched |-> TRUE, evidence |-> NoEvidence]
  ELSE Verdict(Lower(Strip(Str(cv_edu))) = Lower(Strip(Str(jd_edu))),
               [fmt |-> "education", a |-> <<Str(cv_edu)>>])

\* lines 179-184: cv_langs, and the list behind cv_all_tokens
CvLangs(cv_skills) == Map(LAMBDA x : Lower(Str(x)), Get(cv_skills, "languages", <<>>))
CvAllTokens(cv_skills) ==
  Map(LAMBDA x : Lower(Str(x)), Get(cv_skills, "must_have", <<>>))
  \o Map(LAMBDA x : Lower(Str(x)), Get(cv_skills, "nice_to_have", <<>>))

\* lines 198-220: the verdict and the evidence for one requirement
MatchOne(name, cv_skills, jd_skills) ==
  IF StartsWithLang(name)
  THEN Verdict(InList(AfterFirstColon(name), CvLangs(cv_skills)),
               [fmt |-> "language", a |-> <<AfterFirstColon(name)>>])
  ELSE IF name = YearsName
  THEN YearsVerdict(parse_years(Get(jd_skills, "years_experience", None)),
                    parse_years(Get(cv_skills, "years_experience", None)))
  ELSE IF name = EduName
  THEN EduVerdict(Get(jd_skills, "education_level", None),
                  Get(cv_skills, "education_level", None))
  ELSE Verdict(InList(name, CvAllTokens(cv_skills)), [fmt |-> "skill", a |-> <<name>>])

\* lines 246-252: the report returned when the inputs are not two dicts
EmptyReport ==
  [jd_requirements |-> <<>>, cv_mentions |-> <<>>, match_results |-> <<>>,
   raw_score |-> 0, ats_score_suggestion |-> 0]

\* line 233: round(sum(weights of the matched results), 4), in units of 1e-4
RawScore(match_results) ==
  RoundHalfEven(SumSeq(Map(LAMBDA r : r.weight,
                           Filter(LAMBDA r : r.matched, match_results))), 100)

\* line 235: round(raw_score * 100, 2), in units of 1e-2
AtsScore(raw_score) == RoundHalfEven(raw_score * 100, 100)

\* lines 225-231
ResultEntry(req, v) ==
  [requirement |-> req.name, weight |-> req.weight, must_have |-> req.must_have,
   matched |-> v.matched, evidence |-> v.evidence]

\* lines 197-231: one result per requirement, in order
MatchResults(jd_requirements, cv_skills, jd_skills) ==
  Map(LAMBDA req : ResultEntry(req, MatchOne(req.name, cv_skills, jd_skills)), jd_requirements)

\* lines 222-223
CvMentions(match_results) ==
  Map(LAMBDA r : [name |-> r.requirement, context |-> r.evidence],
      Filter(LAMBDA r : r.matched /\ r.evidence # NoEvidence, match_results))

\* lines 235-242
ReportWithScore(jd_requirements, match_results, raw_score) ==
  [jd_requirements |-> jd_requirements, cv_mentions |-> CvMentions(match_results),
   match_results |-> match_results, raw_score |-> raw_score,
   ats_score_suggestion |-> AtsScore(raw_score)]

\* lines 233-242
Report(jd_requirements, match_results) ==
  ReportWithScore(jd_requirements, match_results, RawScore(match_results))

\* lines 178-242
MatchAgainst(jd_requirements, cv_skills, jd_skills) ==
  Report(jd_requirements, MatchResults(jd_requirements, cv_skills, jd_skills))

\* build_cv_jd_match with the legacy text mode its docstring describes: raw
\* strings are matched by a substring heuristic
build_cv_jd_match_LegacyText(cv_or_cv_skills, jd_or_jd_skills) ==
  IF cv_or_cv_skills.kind = "dict" /\ jd_or_jd_skills.kind = "dict"
  THEN MatchAgainst(Normalize(RawReqs(jd_or_jd_skills.d)), cv_or_cv_skills.d, jd_or_jd_skills.d)
  ELSE Report(<<[name |-> <<"t", "e", "x", "t">>, weight |-> 1000000, must_have |-> TRUE]>>,
              <<[requirement |-> <<"t", "e", "x", "t">>, weight |-> 1000000, must_have |-> TRUE,
                 matched |-> TRUE, evidence |-> [fmt |-> "skill", a |-> <<<<"t", "e", "x", "t">>>>]]>>)

build_cv_jd_match(cv_or_cv_skills, jd_or_jd_skills) ==
  IF cv_or_cv_skills.kind = "dict" /\ jd_or_jd_skills.kind = "dict"
  THEN MatchAgainst(Normalize(RawReqs(jd_or_jd_skills.d)), cv_or_cv_skills.d, jd_or_jd_skills.d)
  ELSE EmptyReport

\* ---------------------------------------------------------- match reports
\* A match_report argument: None, a dict, a str or an int.
PyNone == [kind |-> "None"]
PyInt(n) == [kind |-> "int", n |-> n]

MatchResultsKey == <<"m", "a", "t", "c", "h", "_", "r", "e", "s", "u", "l", "t", "s">>

\* sub in s, for two strs
Contains(s, sub) ==
  \E i \in 1..(Len(s) - Len(sub) + 1) : SubSeq(s, i, i + Len(sub) - 1) = sub

\* not x
Falsy(x) ==
  CASE x.kind = "None" -> TRUE
    [] x.kind = "dict" -> DOMAIN x.d = {}
    [] x.kind = "str" -> x.s = <<>>
    [] x.kind = "int" -> x.n = 0

Raised(exc) == [raised |-> exc]
IsRaised(res) == "raised" \in DOMAIN res
IsError(res) == "error" \in DOMAIN res

\* sorted(xs, key=..., reverse=True): stable, descending.  The element at
\* index i goes to position Rank[i]: after every element with a larger key
\* and after the earlier elements with an equal key.
SortedDesc(key(_), xs) ==
  LET n == Len(xs)
      keys == SubSeq([i \in 1..n |-> key(xs[i])], 1, n)
      Rank == SubSeq([i \in 1..n |->
                        Cardinality({j \in 1..n : keys[j] > keys[i]})
                        + Cardinality({j \in 1..i : keys[j] = keys[i]})], 1, n)
  IN [k \in 1..n |-> xs[CHOOSE i \in 1..n : Rank[i] = k]]

\* xs[:n] for n >= 0
Prefix(xs, n) == SubSeq(xs, 1, IF n < Len(xs) THEN n ELSE Len(xs))

\* ------------------------------------ generate_counterfactuals (256-325)
\* a guard that also insists on the jd_requirements field
GuardRejects_BothFields(match_report) ==
  IF Falsy(match_report) THEN [v |-> TRUE]
  ELSE CASE match_report.kind = "dict" ->
              [v |-> "match_results" \notin DOMAIN match_report.d
                     \/ "jd_requirements" \notin DOMAIN match_report.d]
         [] match_report.kind = "str" -> [v |-> ~Contains(match_report.s, MatchResultsKey)]
         [] match_report.kind = "int" -> Raised("TypeError")

\* line 264: the guard; TRUE, FALSE, or the exception it raises
GuardRejects(match_report) ==
  IF Falsy(match_report) THEN [v |-> TRUE]
  ELSE CASE match_report.kind = "dict" -> [v |-> "match_results" \notin DOMAIN match_report.d]
         [] match_report.kind = "str" -> [v |-> ~Contains(match_report.s, MatchResultsKey)]
         [] match_report.kind = "int" -> Raised("TypeError")

\* lines 271-275: the unmatched entries, by descending weight, first top_k
\* the missing requirements ranked by ascending weight
MissingTop_Ascending(match_results, top_k) ==
  Prefix(SortedDesc(LAMBDA r : -Get(r, "weight", 0),
                    Filter(LAMBDA r : ~Get(r, "matched", FALSE), match_results)),
         top_k)

MissingTop(match_results, top_k) ==
  Prefix(SortedDesc(LAMBDA r : Get(r, "weight", 0),
                    Filter(LAMBDA r : ~Get(r, "matched", FALSE), match_results)),
         top_k)

\* lines 276-295
Counterfactual(req) ==
  [requirement |-> req.requirement,
   suggested_change |-> [fmt |-> IF Get(req, "must_have", FALSE) THEN "add_bullet" ELSE "mention",
                         a |-> <<req.requirement>>]]

\* line 265
GenerateError == [error |-> "No match_report provided or bad format."]

generate_counterfactuals(match_report, top_k) ==
  LET g == GuardRejects(match_report)
  IN IF IsRaised(g) THEN g
     ELSE IF g.v THEN GenerateError
     ELSE IF match_report.kind = "str" THEN Raised("TypeError")
     ELSE
       LET match_results == match_report.d["match_results"]
           top == MissingTop(match_results, top_k)
           strengths == Map(LAMBDA r : r.requirement,
                            Filter(LAMBDA r : Get(r, "matched", FALSE), match_results))
           weaknesses == Map(LAMBDA r : r.requirement,
                             Filter(LAMBDA r : ~Get(r, "matched", FALSE), match_results))
       IN IF \E i \in 1..Len(match_results) : "requirement" \notin DOMAIN match_results[i]
          THEN Raised("KeyError")
          ELSE [counterfactuals |-> Map(Counterfactual, top),
                contrastive_explanations |->
                  (IF Len(strengths) > 0
                   THEN <<[fmt |-> "preferred", a |-> Prefix(strengths, 5)]>> ELSE <<>>)
                  \o (IF Len(weaknesses) > 0
                      THEN <<[fmt |-> "lacks", a |-> Prefix(weaknesses, 5)]>> ELSE <<>>),
                decision_path |->
                  <<[fmt |-> "step1", a |-> <<>>],
                    [fmt |-> "step2", a |-> Map(LAMBDA r : r.requirement, top)],
                    [fmt |-> "step3", a |-> <<>>]>>]

\* ---------------------------------- apply_counterfactual_to_cv (329-338)
BulletPrefix == <<"\n", "-", " ", "E", "x", "p", "e", "r", "i", "e", "n", "c", "e", " ",
                  "w", "i", "t", "h", " ">>

\* cv + f"\n- Experience with {requirement_name}": defined for a str cv only
apply_counterfactual_to_cv(cv, requirement_name) ==
  LET cv0 == IF Falsy(cv) THEN PyStr(<<>>) ELSE cv
  IN IF cv0.kind = "str"
     THEN PyStr(cv0.s \o BulletPrefix \o requirement_name)
     ELSE Raised("TypeError")

\* --------------------------- validate_and_rank_counterfactuals (340-419)
\* float(match_report.get("raw_score", 0.0)), in units of 1e-4
OldRaw(match_report) == Get(match_report.d, "raw_score", 0)

\* lines 369-371: effort_cost in tenths, from the first entry with that name
EffortCost(match_report, req_name) ==
  LET rs == Get(match_report.d, "match_results", <<>>)
      hits == {i \in 1..Len(rs) : rs[i].requirement = req_name}
      matched_entry == IF hits = {} THEN <<>>
                       ELSE rs[CHOOSE m \in hits : \A n \in hits : m <= n]
  IN IF Get(matched_entry, "must_have", FALSE) THEN 10 ELSE 5

\* line 374: round(actual_delta_pct / effort_cost, 4), in units of 1e-4
ImpactRatio(actual_delta_pct, effort_cost) ==
  IF effort_cost > 0 THEN RoundHalfEven(actual_delta_pct * 100 * 10, effort_cost) ELSE 0

\* lines 377-384: the enriched copy of a counterfactual
Enriched(cf, new_raw, actual_delta_raw, actual_delta_pct, effort_cost) ==
  [requirement |-> cf.requirement,
   suggested_change |-> cf.suggested_change,
   actual_delta_raw |-> actual_delta_raw,
   actual_delta_pct |-> actual_delta_pct,
   effort_cost |-> effort_cost,
   impact_ratio |-> ImpactRatio(actual_delta_pct, effort_cost),
   validated_with_new_raw |-> new_raw]

\* lines 361-365: round(new_raw - old_raw, 4) and round((new_raw - old_raw) * 100, 2)
Measure(cf, new_raw, old_raw, effort_cost) ==
  Enriched(cf, new_raw, new_raw - old_raw,
           RoundHalfEven((new_raw - old_raw) * 100, 100), effort_cost)

\* lines 360-385, given the result of apply_counterfactual_to_cv
Rematch(cf, match_report, new_cv, jd) ==
  IF IsRaised(new_cv) THEN new_cv
  ELSE Measure(cf, build_cv_jd_match(new_cv, jd).raw_score, OldRaw(match_report),
               EffortCost(match_report, cf.requirement))

\* lines 356-385: one pass of the loop; the enriched copy, or the exception
ValidateOne(cf, match_report, cv, jd) ==
  Rematch(cf, match_report, apply_counterfactual_to_cv(cv, cf.requirement), jd)

\* lines 354-385: the list `validated`, in generation order
Validated(cfs, match_report, cv, jd) ==
  Map(LAMBDA cf : ValidateOne(cf, match_report, cv, jd), cfs)

\* the same sort without reverse=True
RankByImpact_Ascending(validated) == SortedDesc(LAMBDA x : -x.impact_ratio, validated)

\* line 391
RankByImpact(validated) == SortedDesc(LAMBDA x : x.impact_ratio, validated)

\* an error branch that hands the generator's error on
ValidateError_Propagated == GenerateError

\* line 349
ValidateError == [error |-> "No predicted counterfactuals available."]

\* lines 393-414: the result, given the ranked list
Bundle(validated_sorted, match_report) ==
  LET rs == Get(match_report.d, "match_results", <<>>)
      strengths == Map(LAMBDA r : r.requirement, Filter(LAMBDA r : Get(r, "matched", FALSE), rs))
      weaknesses == Map(LAMBDA r : r.requirement, Filter(LAMBDA r : ~Get(r, "matched", FALSE), rs))
  IN [validated_counterfactuals |-> validated_sorted,
      expanded_contrastive_explanations |->
        (IF Len(strengths) > 0 THEN <<[fmt |-> "positive", a |-> strengths]>> ELSE <<>>)
        \o (IF Len(weaknesses) > 0 THEN <<[fmt |-> "negative", a |-> weaknesses]>> ELSE <<>>),
      per_counterfactual_explanations |->
        Map(LAMBDA cf : [fmt |-> "if_adds",
                         a |-> <<cf.requirement, cf.actual_delta_pct, cf.impact_ratio>>],
            validated_sorted)]

\* lines 391-419, given the list `validated`; a pass that raised ends the call
RankAndExplain(validated, match_report) ==
  IF \E i \in 1..Len(validated) : IsRaised(validated[i])
  THEN Raised("TypeError")
  ELSE Bundle(RankByImpact(validated), match_report)

\* lines 348-419, given the result of generate_counterfactuals
ValidatePredicted(predicted_cfs, match_report, cv, jd) ==
  IF IsRaised(predicted_cfs) THEN predicted_cfs
  ELSE IF "counterfactuals" \notin DOMAIN predicted_cfs THEN ValidateError
  ELSE RankAndExplain(Validated(predicted_cfs.counterfactuals, match_report, cv, jd),
                      match_report)

validate_and_rank_counterfactuals(match_report, cv, jd, top_k) ==
  ValidatePredicted(generate_counterfactuals(match_report, top_k), match_report, cv, jd)

\* ------------------------------------- compute_relevant_score (496-542)
\* indicator_match without the "no requirement" case of line 515
indicator_match_scalar_Strict(jd_value, cv_value) ==
  IF jd_value = cv_value THEN 1 ELSE 0

\* lines 514-519, for a str-or-None requirement
indicator_match_scalar(jd_value, cv_value) ==
  IF ~Truthy(jd_value) THEN 1 ELSE IF jd_value = cv_value THEN 1 ELSE 0

\* indicator_match on a list that counts an empty requirement list as unmet
indicator_match_list_NonEmpty(jd_value, cv_value) ==
  IF jd_value # <<>> /\ \A i \in 1..Len(jd_value) : InList(jd_value[i], cv_value) THEN 1 ELSE 0

\* lines 514-519, for a list requirement
indicator_match_list(jd_value, cv_value) ==
  IF jd_value = <<>> THEN 1
  ELSE IF \A i \in 1..Len(jd_value) : InList(jd_value[i], cv_value) THEN 1 ELSE 0

\* Scores in units of 1e-4.  s_skills = (3 * s_must + s_nice) / 4 is kept as
\* the exact fraction skills_num / skills_den until it is rounded.
compute_relevant_score(jd, cv) ==
  LET must_total == Len(Get(jd, "must_have", <<>>))
      nice_total == Len(Get(jd, "nice_to_have", <<>>))
      must_matched == Len(Get(cv, "must_have", <<>>))
      nice_matched == Len(Get(cv, "nice_to_have", <<>>))
      mt == IF must_total > 0 THEN must_total ELSE 1
      nt == IF nice_total > 0 THEN nice_total ELSE 1
      mm == IF must_total > 0 THEN must_matched ELSE 0
      nm == IF nice_total > 0 THEN nice_matched ELSE 0
      skills_num == 3 * mm * nt + nm * mt
      skills_den == 4 * mt * nt
      s_experience == indicator_match_scalar(Get(jd, "years_experience", None),
                                             Get(cv, "years_experience", None))
      s_education == indicator_match_scalar(Get(jd, "education_level", None),
                                            Get(cv, "education_level", None))
      s_lang == indicator_match_list(Get(jd, "languages", <<>>), Get(cv, "languages", <<>>))
      others == 20 * s_experience + 15 * s_lang + 5 * s_education
  IN [s_must |-> RoundHalfEven(mm * 10000, mt),
      s_nice |-> RoundHalfEven(nm * 10000, nt),
      s_skills |-> RoundHalfEven(skills_num * 10000, skills_den),
      s_experience |-> s_experience * 10000,
      s_education |-> s_education * 10000,
      s_languages |-> s_lang * 10000,
      score |-> RoundHalfEven((60 * skills_num + others * skills_den) * 100, skills_den)]

\* ------------------------------------------------------------ input sets
SeqsUpTo(S, n) == UNION {[1..k -> S] : k \in 0..n}

EmptyDict == [x \in {} |-> x]

TokPy == <<"p", "y">>
TokMl == <<"m", "l">>
TokK8 == <<"k", "8">>
TokEn == <<"e", "n">>

TokPython == <<"p", "y", "t", "h", "o", "n">>
TokMlops == <<"m", "l", "o", "p", "s">>
TokKubernetes == <<"k", "u", "b", "e", "r", "n", "e", "t", "e", "s">>

\* job indicator dicts: the skill lists, and the other three fields
JobExtras ==
  {EmptyDict,
   [languages |-> <<>>, years_experience |-> <<>>, education_level |-> <<>>],
   [languages |-> <<TokEn>>, years_experience |-> <<"5", " ", "y", "r", "s">>],
   [languages |-> <<TokEn>>, years_experience |-> <<"5", " ", "y", "r", "s">>,
    education_level |-> <<"M", "S", "c">>]}

SmallJobs ==
  {[must_have |-> m, nice_to_have |-> n] @@ e :
     m \in SeqsUpTo({TokPy, TokMl}, MaxMust), n \in SeqsUpTo({TokK8}, MaxNice), e \in JobExtras}

\* jobs with a long must_have list
LongJobs == {[must_have |-> [i \in 1..n |-> TokPy]] : n \in {MidLong, MaxLong}}

\* jobs with missing fields
PartialJobs == {EmptyDict, [nice_to_have |-> <<TokK8>>], [education_level |-> <<"M", "S", "c">>]}

\* jobs and candidates whose skill lists hold an empty-string token
BlankJobs == {[must_have |-> <<<<>>>>], [must_have |-> <<TokPy>>, nice_to_have |-> <<<<>>>>]}
BlankCvs == {[must_have |-> <<<<>>>>], [must_have |-> <<TokPy>>]}

\* the job and the candidate of two worked examples: one requirement, met;
\* three requirements, one met
OneSkillJob ==
  [must_have |-> <<TokPython>>, nice_to_have |-> <<>>, years_experience |-> <<>>,
   education_level |-> <<>>, languages |-> <<>>]
OneSkillCvs ==
  {[must_have |-> <<TokPython>>],
   [must_have |-> <<TokPython>>, nice_to_have |-> <<>>, years_experience |-> <<>>,
    education_level |-> <<>>, languages |-> <<>>]}
ThreeSkillJob == [must_have |-> <<TokPython, TokMlops>>, nice_to_have |-> <<TokKubernetes>>]
ThreeSkillCv == [must_have |-> <<TokPython>>, nice_to_have |-> <<>>]

\* a job that names the same skill as must_have and as nice_to_have
TwiceNamedJobs == {[must_have |-> <<TokPy>>, nice_to_have |-> <<TokPy>>]}
TwiceNamedCvs == {EmptyDict, [must_have |-> <<TokMl>>]}

\* years_experience texts: no number, one number, a decimal, several numbers
YearsJobs ==
  {[years_experience |-> y] :
     y \in {<<"s", "r">>, <<"5", " ", "y", "r", "s">>, <<"2", ".", "5">>, <<"5", "-", "7">>}}
YearsCvs ==
  {EmptyDict}
  \cup {[years_experience |-> y] :
          y \in {<<"3", " ", "y", "r", "s">>, <<"6", " ", "y", "r", "s">>, <<"2", ".", "5", "0">>,
                 <<"n", "/", "a">>, <<"3", " ", "o", "r", " ", "1", "0">>, <<"1", "0">>}}

\* education_level texts
EduJobs ==
  {[education_level |-> e] : e \in {<<"N", "o", "n", "e">>, <<" ">>, <<"M", "S", "c">>}}
EduCvs ==
  {EmptyDict}
  \cup {[education_level |-> e] : e \in {<<>>, <<"m", "s", "c", " ">>, <<"B", "S", "c">>}}

\* skill tokens that read like the name of another kind of requirement
KeywordJobs ==
  {[must_have |-> <<LangPrefix \o TokEn>>],
   [must_have |-> <<YearsName>>],
   [nice_to_have |-> <<EduName>>, languages |-> <<TokEn>>]}
KeywordCvs ==
  {EmptyDict, [languages |-> <<TokEn>>], [must_have |-> <<LangPrefix \o TokEn>>],
   [must_have |-> <<YearsName>>]}

\* the same tokens in another letter case
CaseJobs ==
  {[must_have |-> <<TokPy>>, languages |-> <<TokEn>>],
   [must_have |-> <<<<"P", "Y">>>>, languages |-> <<<<"E", "N">>>>]}
CaseCvs ==
  {[must_have |-> <<TokPy>>, languages |-> <<TokEn>>],
   [must_have |-> <<<<"P", "y">>>>, languages |-> <<TokEn>>],
   [must_have |-> <<TokPy>>, languages |-> <<<<"E", "N">>>>]}

CvExtras ==
  {EmptyDict,
   [languages |-> <<TokEn>>, years_experience |-> <<"6", " ", "y", "r", "s">>,
    education_level |-> <<"m", "s", "c", " ">>],
   [languages |-> <<>>, years_experience |-> <<"3", " ", "y", "r", "s">>, education_level |-> <<>>]}

SmallCvs ==
  {[must_have |-> m, nice_to_have |-> n] @@ e :
     m \in SeqsUpTo({TokPy, TokMl}, MaxCvMust), n \in SeqsUpTo({TokK8}, 1), e \in CvExtras}

PartialCvs == {EmptyDict, [languages |-> <<TokEn>>]}

CvInputs == SmallCvs \cup PartialCvs

\* the candidates a long job is matched against
LongCvs == {[must_have |-> <<TokPy>>], [must_have |-> <<TokMl>>]}

\* raw texts, for a caller that passes the documents and not the indicators
CvText == <<"c", "v">>
JdText == <<"j", "d">>

TopKs == 0..MaxTopK

\* the argument pairs of build_cv_jd_match: two indicator dicts, or raw text
MatchInputs ==
  {[cv |-> PyDict(c), jd |-> PyDict(j)] :
     <<j, c>> \in (SmallJobs \cup PartialJobs) \X CvInputs \cup LongJobs \X LongCvs
                 \cup BlankJobs \X BlankCvs \cup {OneSkillJob} \X OneSkillCvs
                 \cup {<<ThreeSkillJob, ThreeSkillCv>>}
                 \cup TwiceNamedJobs \X TwiceNamedCvs \cup YearsJobs \X YearsCvs
                 \cup EduJobs \X EduCvs \cup KeywordJobs \X KeywordCvs
                 \cup CaseJobs \X CaseCvs}
  \cup {[cv |-> PyStr(CvText), jd |-> PyStr(JdText)],
        [cv |-> PyStr(CvText), jd |-> PyDict([must_have |-> <<TokPy>>])]}

\* match reports that a caller hands to the generator and the validator
\* without having built them: absent, empty, incomplete, hand-written
EntryK8 == [requirement |-> TokK8, weight |-> 600000, must_have |-> FALSE, matched |-> FALSE,
            evidence |-> NoEvidence]
EntryMl == [requirement |-> TokMl, weight |-> 400000, must_have |-> TRUE, matched |-> FALSE,
            evidence |-> NoEvidence]
EntryPy == [requirement |-> TokPy, weight |-> 200000, must_have |-> TRUE, matched |-> TRUE,
            evidence |-> [fmt |-> "skill", a |-> <<TokPy>>]]
EntryOpt(name) == [requirement |-> name, weight |-> 200000, must_have |-> FALSE,
                   matched |-> FALSE, evidence |-> NoEvidence]
EntryMust(name) == [requirement |-> name, weight |-> 200000, must_have |-> TRUE,
                    matched |-> FALSE, evidence |-> NoEvidence]

SuppliedReports ==
  {PyNone,
   PyDict(EmptyDict),
   PyDict([raw_score |-> 5000]),
   PyDict([jd_requirements |-> <<>>, raw_score |-> 0]),
   PyDict([match_results |-> <<EntryK8, EntryMl>>, raw_score |-> 3000]),
   PyDict([match_results |-> <<EntryK8, EntryMl>>]),
   PyDict([jd_requirements |-> <<>>, cv_mentions |-> <<>>,
           match_results |-> <<EntryPy, EntryOpt(TokK8), EntryMust(TokMl), EntryOpt(TokEn)>>,
           raw_score |-> 4000, ats_score_suggestion |-> 4000]),
   PyDict([match_results |-> <<[requirement |-> TokPy], [weight |-> 500000, matched |-> FALSE]>>,
           raw_score |-> 0]),
   PyDict([match_results |-> <<[requirement |-> TokPy], [requirement |-> TokMl, matched |-> TRUE]>>]),
   PyStr(JdText),
   PyStr(<<"{">> \o MatchResultsKey \o <<"}">>),
   PyInt(0),
   PyInt(5)}

SuppliedCvs == {PyStr(CvText), PyStr(<<>>), PyDict(EmptyDict), PyDict([must_have |-> <<TokPy>>])}

\* ---------------------------------------------------------------- state
\* pc            position in the pipeline of analyze_agent / the scoring call
\* cv, jd        the candidate and the job, as the caller holds them
\* source        "built" when match_report comes from build_cv_jd_match
\* match_report  the report handed to steps (b) and (c)
\* top_k         the top_k of steps (b) and (c)
\* predicted     result of generate_counterfactuals
\* val_form      how step (c) received cv and jd
\* ranked        result of validate_and_rank_counterfactuals
\* relevance     result of compute_relevant_score
VARIABLES pc, cv, jd, source, match_report, top_k, predicted, val_form, ranked, relevance

\* Two evaluations that run side by side, each a call of build_cv_jd_match
\* followed by a call of validate_and_rank_counterfactuals on its report, taken
\* one loop pass at a time:
\* args   per evaluation, the argument objects the caller passes
\* frame  per call frame, the local objects of the running call
\* cpc    per evaluation, its position
\* ret    per evaluation, the objects returned to the caller so far
VARIABLES args, frame, cpc, ret

\* Two calls of run_resume_scoring_agent on different threads:
\* agent_model  the model attribute of the three module-level agents
\* rpc          per call, its position
\* llm_config   per call, its llm_provider, llm_model_name, api_key and
\*              ollama_base_url arguments
\* model        per call, its local variable `model`
\* used         per call and agent, the model the agent ran with
VARIABLES agent_model, rpc, llm_config, model, used

pvars == <<pc, cv, jd, source, match_report, top_k, predicted, val_form, ranked, relevance>>
cvars == <<args, frame, cpc, ret>>
avars == <<agent_model, rpc, llm_config, model, used>>
vars == <<pvars, cvars, avars>>

Unset == [unset |-> TRUE]

PipelineIdle ==
  /\ pc = "idle"
  /\ cv = Unset
  /\ jd = Unset
  /\ source = "none"
  /\ match_report = Unset
  /\ top_k = 0
  /\ predicted = Unset
  /\ val_form = "none"
  /\ ranked = Unset
  /\ relevance = Unset

\* no side-by-side evaluation is under way
CallsOff ==
  /\ args = <<>>
  /\ frame = <<>>
  /\ cpc = <<>>
  /\ ret = <<>>

\* no call of run_resume_scoring_agent is under way
RunsOff ==
  /\ agent_model = <<>>
  /\ rpc = <<>>
  /\ llm_config = <<>>
  /\ model = <<>>
  /\ used = <<>>

Init == PipelineIdle /\ CallsOff /\ RunsOff

\* step (a) of analyze_agent: build_cv_jd_match(cv, jd)
Match ==
  /\ pc = "idle"
  /\ \E a \in MatchInputs :
       /\ cv' = a.cv
       /\ jd' = a.jd
       /\ match_report' = PyDict(build_cv_jd_match(a.cv, a.jd))
  /\ source' = "built"
  /\ pc' = "matched"
  /\ UNCHANGED <<top_k, predicted, val_form, ranked, relevance, cvars, avars>>

\* the caller skips step (a) and supplies a report of its own
SupplyReport ==
  /\ pc = "idle"
  /\ \E r \in SuppliedReports : match_report' = r
  /\ \E c \in SuppliedCvs : cv' = c
  /\ jd' = PyDict([must_have |-> <<TokPy, TokMl>>])
  /\ source' = "supplied"
  /\ pc' = "matched"
  /\ UNCHANGED <<top_k, predicted, val_form, ranked, relevance, cvars, avars>>

\* the scoring pipeline: compute_relevant_score(jd, cv) on two indicator dicts
Score ==
  /\ pc = "idle"
  /\ \E a \in {m \in MatchInputs : m.cv.kind = "dict" /\ m.jd.kind = "dict"} :
       /\ cv' = a.cv
       /\ jd' = a.jd
       /\ relevance' = compute_relevant_score(a.jd.d, a.cv.d)
  /\ pc' = "scored"
  /\ UNCHANGED <<source, match_report, top_k, predicted, val_form, ranked, cvars, avars>>

\* step (b): generate_counterfactuals(match_report, top_k)
Generate ==
  /\ pc = "matched"
  /\ \E k \in TopKs :
       /\ top_k' = k
       /\ predicted' = generate_counterfactuals(match_report, k)
  /\ pc' = "generated"
  /\ UNCHANGED <<cv, jd, source, match_report, val_form, ranked, relevance, cvars, avars>>

\* the cv and jd arguments of step (c): what the caller holds, or the raw texts
ValidateArgs(form) ==
  IF form = "text" THEN [cv |-> PyStr(CvText), jd |-> PyStr(JdText)] ELSE [cv |-> cv, jd |-> jd]

\* step (c): validate_and_rank_counterfactuals(match_report, cv, jd, top_k)
Validate ==
  /\ pc = "generated"
  /\ \E form \in {"held", "text"} :
       /\ val_form' = form
       /\ ranked' = validate_and_rank_counterfactuals(match_report, ValidateArgs(form).cv,
                                                      ValidateArgs(form).jd, top_k)
  /\ pc' = "validated"
  /\ UNCHANGED <<cv, jd, source, match_report, top_k, predicted, relevance, cvars, avars>>

Next == Match \/ SupplyReport \/ Score \/ Generate \/ Validate

Spec == Init /\ [][Next]_vars

\* ------------------------------------------- two evaluations side by side
Procs == {1, 2}

\* the arguments of one evaluation: the indicator dicts given to
\* build_cv_jd_match, and the cv and jd given to the validator, which are the
\* same dicts or the raw texts
CallTasks ==
  {[cv |-> PyDict(c), jd |-> PyDict(j),
    vcv |-> IF text THEN PyStr(CvText) ELSE PyDict(c),
    vjd |-> IF text THEN PyStr(JdText) ELSE PyDict(j),
    top_k |-> MaxTopK] :
     c \in {EmptyDict, [must_have |-> <<TokPy>>], [must_have |-> <<TokMl>>, nice_to_have |-> <<TokK8>>]},
     j \in {[must_have |-> <<TokPy, TokMl>>, nice_to_have |-> <<TokK8>>],
            [must_have |-> <<TokMl>>, languages |-> <<TokEn>>]},
     text \in BOOLEAN}

\* the locals of a call before it has assigned any of them
NoLocals ==
  [jd_requirements |-> <<>>, match_results |-> <<>>, predicted |-> Unset, cfs |-> <<>>,
   new_cv |-> Unset, validated |-> <<>>]

\* Each call has a frame of its own: its locals are created at entry and no
\* other call sees them.  Frames are numbered by the evaluation that owns them.
FrameOf_Shared(p) == 1

FrameOf(p) == p

\* The objects a step can reach are o.a, the arguments; o.report, the report
\* handed to the validator; o.loc, the locals.  A step maps them to their
\* values after it.

\* build_cv_jd_match, lines 145-176 and 194-195: the requirements, and an
\* empty result list
BuildEntry(o) ==
  [o EXCEPT !.loc.jd_requirements = IF o.a.cv.kind = "dict" /\ o.a.jd.kind = "dict"
                                    THEN Normalize(RawReqs(o.a.jd.d)) ELSE <<>>,
            !.loc.match_results = <<>>]

\* lines 197-231: one pass of the loop appends one result to match_results
BuildPass(o) ==
  [o EXCEPT !.loc.match_results =
     Append(@, ResultEntry(o.loc.jd_requirements[Len(@) + 1],
                           MatchOne(o.loc.jd_requirements[Len(@) + 1].name, o.a.cv.d, o.a.jd.d)))]

\* lines 233-252: the report that is returned
BuildResult(o) ==
  IF o.a.cv.kind = "dict" /\ o.a.jd.kind = "dict"
  THEN Report(o.loc.jd_requirements, o.loc.match_results)
  ELSE EmptyReport

\* validate_and_rank_counterfactuals, lines 346-354: the inner call of
\* generate_counterfactuals, the deep copy of its counterfactuals, and an empty
\* list `validated`
ValidateEntry(o) ==
  [o EXCEPT !.loc.predicted = generate_counterfactuals(o.report, o.a.top_k),
            !.loc.cfs = Get(generate_counterfactuals(o.report, o.a.top_k), "counterfactuals", <<>>),
            !.loc.validated = <<>>]

\* one pass of the loop that writes the enrichment into the generated
\* counterfactual itself: no deepcopy on line 351, no dict(cf) on line 376
ValidatePass_InPlace(o) ==
  [o EXCEPT !.loc.new_cv =
              apply_counterfactual_to_cv(o.a.vcv, o.loc.cfs[Len(o.loc.validated) + 1].requirement),
            !.loc.validated =
              Append(@, ValidateOne(o.loc.cfs[Len(@) + 1], o.report, o.a.vcv, o.a.vjd)),
            !.loc.cfs[Len(o.loc.validated) + 1] =
              ValidateOne(o.loc.cfs[Len(o.loc.validated) + 1], o.report, o.a.vcv, o.a.vjd),
            !.loc.predicted.counterfactuals[Len(o.loc.validated) + 1] =
              ValidateOne(o.loc.cfs[Len(o.loc.validated) + 1], o.report, o.a.vcv, o.a.vjd)]

\* one pass of the loop that applies the change to the CV the pass before it
\* left: new_cv = apply_counterfactual_to_cv(new_cv, req_name)
ValidatePass_Cumulative(o) ==
  [o EXCEPT !.loc.new_cv =
              apply_counterfactual_to_cv(IF @ = Unset THEN o.a.vcv ELSE @,
                                         o.loc.cfs[Len(o.loc.validated) + 1].requirement),
            !.loc.validated =
              Append(@, Rematch(o.loc.cfs[Len(@) + 1], o.report,
                                apply_counterfactual_to_cv(
                                  IF o.loc.new_cv = Unset THEN o.a.vcv ELSE o.loc.new_cv,
                                  o.loc.cfs[Len(@) + 1].requirement),
                                o.a.vjd))]

\* lines 355-385: one pass of the loop applies the next counterfactual to the
\* cv argument (line 359), enriches a copy of the counterfactual (dict(cf),
\* line 376) and appends it to `validated`; a pass that raises is recorded as
\* the exception
ValidatePass(o) ==
  [o EXCEPT !.loc.new_cv =
              apply_counterfactual_to_cv(o.a.vcv, o.loc.cfs[Len(o.loc.validated) + 1].requirement),
            !.loc.validated =
              Append(@, Rematch(o.loc.cfs[Len(@) + 1], o.report,
                                apply_counterfactual_to_cv(o.a.vcv, o.loc.cfs[Len(@) + 1].requirement),
                                o.a.vjd))]

\* the loop of lines 355-385 has ended: every counterfactual is done, or a
\* pass has raised
LoopEnded(loc) ==
  \/ Len(loc.validated) >= Len(loc.cfs)
  \/ \E i \in 1..Len(loc.validated) : IsRaised(loc.validated[i])

\* lines 348-349 and 391-419: what the validator returns
ValidateResult(o) ==
  IF IsRaised(o.loc.predicted) THEN o.loc.predicted
  ELSE IF "counterfactuals" \notin DOMAIN o.loc.predicted THEN ValidateError
  ELSE RankAndExplain(o.loc.validated, o.report)

\* what evaluation p can reach
Reach(p) == [a |-> args[p], report |-> ret[p].report, loc |-> frame[FrameOf(p)]]

\* the objects are left as the step o leaves them
Leave(p, o) ==
  /\ args' = [args EXCEPT ![p] = o.a]
  /\ frame' = [frame EXCEPT ![FrameOf(p)] = o.loc]

InitCalls ==
  /\ PipelineIdle
  /\ RunsOff
  /\ args \in {t \in [Procs -> CallTasks] : t[1].cv # t[2].cv}
  /\ frame = [p \in Procs |-> NoLocals]
  /\ cpc = [p \in Procs |-> "start"]
  /\ ret = [p \in Procs |-> [report |-> Unset, ranked |-> Unset]]

CallBuild(p) ==
  /\ cpc[p] = "start"
  /\ Leave(p, BuildEntry(Reach(p)))
  /\ cpc' = [cpc EXCEPT ![p] = "build_loop"]
  /\ UNCHANGED <<ret, pvars, avars>>

BuildStep(p) ==
  /\ cpc[p] = "build_loop"
  /\ Len(Reach(p).loc.match_results) < Len(Reach(p).loc.jd_requirements)
  /\ Leave(p, BuildPass(Reach(p)))
  /\ UNCHANGED <<cpc, ret, pvars, avars>>

BuildReturn(p) ==
  /\ cpc[p] = "build_loop"
  /\ Len(Reach(p).loc.match_results) >= Len(Reach(p).loc.jd_requirements)
  /\ ret' = [ret EXCEPT ![p].report = PyDict(BuildResult(Reach(p)))]
  /\ cpc' = [cpc EXCEPT ![p] = "built"]
  /\ UNCHANGED <<args, frame, pvars, avars>>

CallValidate(p) ==
  /\ cpc[p] = "built"
  /\ Leave(p, ValidateEntry(Reach(p)))
  /\ ret' = [ret EXCEPT ![p].report = ValidateEntry(Reach(p)).report]
  /\ cpc' = [cpc EXCEPT ![p] = "validate_loop"]
  /\ UNCHANGED <<pvars, avars>>

ValidateStep(p) ==
  /\ cpc[p] = "validate_loop"
  /\ ~LoopEnded(Reach(p).loc)
  /\ Leave(p, ValidatePass(Reach(p)))
  /\ ret' = [ret EXCEPT ![p].report = ValidatePass(Reach(p)).report]
  /\ UNCHANGED <<cpc, pvars, avars>>

ValidateReturn(p) ==
  /\ cpc[p] = "validate_loop"
  /\ LoopEnded(Reach(p).loc)
  /\ ret' = [ret EXCEPT ![p].ranked = ValidateResult(Reach(p))]
  /\ cpc' = [cpc EXCEPT ![p] = "done"]
  /\ UNCHANGED <<args, frame, pvars, avars>>

NextCalls ==
  \E p \in Procs :
     \/ CallBuild(p)
     \/ BuildStep(p)
     \/ BuildReturn(p)
     \/ CallValidate(p)
     \/ ValidateStep(p)
     \/ ValidateReturn(p)

SpecCalls == InitCalls /\ [][NextCalls]_vars

\* ------------------------ two calls of run_resume_scoring_agent (544-693)
Runs == {1, 2}

\* the sub-agents of root_agent, in the order they run
Agents == {"extract_JD_skills_agent", "extract_resume_skills_agent", "analyze_agent"}

\* the model of an agent that no call has configured
NoModel == [model_card |-> <<"default">>]

\* the LLM settings a call may come with: two hosted providers, a local
\* Ollama server given with and without its protocol, and none; a base URL is
\* its protocol and the rest
LlmConfigs ==
  {[llm_provider |-> "openai", llm_model_name |-> "gpt-4o-mini", api_key |-> "key-a",
    ollama_base_url |-> <<>>],
   [llm_provider |-> "Gemini", llm_model_name |-> "gemini-2.0-flash", api_key |-> "key-b",
    ollama_base_url |-> <<>>],
   [llm_provider |-> "ollama", llm_model_name |-> "llama3.2", api_key |-> "",
    ollama_base_url |-> <<"", "localhost:11434">>],
   [llm_provider |-> "", llm_model_name |-> "", api_key |-> "", ollama_base_url |-> <<>>]}

\* str(llm_provider).lower(), for the providers of LlmConfigs
ProviderLower(llm_provider) == IF llm_provider = "Gemini" THEN "gemini" ELSE llm_provider

\* lines 582-584: the base URL with "http://" put before it when it has no protocol
BaseUrl(ollama_base_url) ==
  IF ollama_base_url[1] \in {"http://", "https://"}
  THEN ollama_base_url
  ELSE <<"http://", ollama_base_url[1], ollama_base_url[2]>>

\* lines 607, 611, 619, 623
FallbackModel == [model_card |-> <<"gemini", "/", "gemini-2.0-flash">>]

\* lines 577-623: the LiteLlm object the call creates
CreatedModel(c) ==
  IF c.llm_provider # "" /\ c.llm_model_name # ""
  THEN IF ProviderLower(c.llm_provider) = "ollama"
       THEN IF c.ollama_base_url # <<>>
            THEN [model_card |-> <<"ollama_chat", "/", c.llm_model_name>>, api_key |-> "ollama",
                  api_base |-> BaseUrl(c.ollama_base_url)]
            ELSE FallbackModel
       ELSE IF c.api_key # ""
            THEN [model_card |-> <<ProviderLower(c.llm_provider), "/", c.llm_model_name>>,
                  api_key |-> c.api_key]
            ELSE FallbackModel
  ELSE FallbackModel

InitRuns ==
  /\ PipelineIdle
  /\ CallsOff
  /\ agent_model = [a \in Agents |-> NoModel]
  /\ rpc = [r \in Runs |-> "start"]
  /\ llm_config \in {c \in [Runs -> LlmConfigs] : c[1] # c[2]}
  /\ model = [r \in Runs |-> NoModel]
  /\ used = [r \in Runs |-> [a \in Agents |-> NoModel]]

\* lines 556-623
CreateModel(r) ==
  /\ rpc[r] = "start"
  /\ model' = [model EXCEPT ![r] = CreatedModel(llm_config[r])]
  /\ rpc' = [rpc EXCEPT ![r] = "created"]
  /\ UNCHANGED <<agent_model, llm_config, used, pvars, cvars>>

\* one of the assignments of lines 624-626
Assign(r, from, agent, to) ==
  /\ rpc[r] = from
  /\ agent_model' = [agent_model EXCEPT ![agent] = model[r]]
  /\ rpc' = [rpc EXCEPT ![r] = to]
  /\ UNCHANGED <<llm_config, model, used, pvars, cvars>>

AssignJD(r) == Assign(r, "created", "extract_JD_skills_agent", "jd_set")
AssignCV(r) == Assign(r, "jd_set", "extract_resume_skills_agent", "cv_set")
AssignAnalyze(r) == Assign(r, "cv_set", "analyze_agent", "configured")

\* lines 631-641: the runner runs one sub-agent of root_agent, which calls the
\* model its model attribute holds at that time
RunAgent(r, from, agent, to) ==
  /\ rpc[r] = from
  /\ used' = [used EXCEPT ![r][agent] = agent_model[agent]]
  /\ rpc' = [rpc EXCEPT ![r] = to]
  /\ UNCHANGED <<agent_model, llm_config, model, pvars, cvars>>

RunJD(r) == RunAgent(r, "configured", "extract_JD_skills_agent", "jd_done")
RunCV(r) == RunAgent(r, "jd_done", "extract_resume_skills_agent", "cv_done")
RunAnalyze(r) == RunAgent(r, "cv_done", "analyze_agent", "analyzed")

\* lines 659-693
Return(r) ==
  /\ rpc[r] = "analyzed"
  /\ rpc' = [rpc EXCEPT ![r] = "returned"]
  /\ UNCHANGED <<agent_model, llm_config, model, used, pvars, cvars>>

NextRuns ==
  \E r \in Runs :
     \/ CreateModel(r)
     \/ AssignJD(r)
     \/ AssignCV(r)
     \/ AssignAnalyze(r)
     \/ RunJD(r)
     \/ RunCV(r)
     \/ RunAnalyze(r)
     \/ Return(r)

SpecRuns == InitRuns /\ [][NextRuns]_vars

\* ================================================================ claims
BuiltReport == source = "built" /\ match_report.kind = "dict"
ValidatedOk == pc = "validated" /\ "validated_counterfactuals" \in DOMAIN ranked
UnmatchedPositive(name) ==
  \E i \in 1..Len(match_report.d.match_results) :
     LET r == match_report.d.match_results[i]
     IN r.requirement = name /\ ~r.matched /\ r.weight > 0

\* C1: for a report built by build_cv_jd_match, every validated
\* counterfactual has actual_delta_raw >= 0.
C1_DeltaNeverNegative ==
  (BuiltReport /\ ValidatedOk) =>
    \A i \in 1..Len(ranked.validated_counterfactuals) :
       ranked.validated_counterfactuals[i].actual_delta_raw >= 0

\* C2: the simulated mutation makes the re-run recognise the requirement:
\* a counterfactual on a requirement that was unmatched with positive weight
\* has actual_delta_raw > 0.
C2_MutationRecognised ==
  (BuiltReport /\ ValidatedOk) =>
    \A i \in 1..Len(ranked.validated_counterfactuals) :
       LET cf == ranked.validated_counterfactuals[i]
       IN UnmatchedPositive(cf.requirement) =>
            /\ cf.validated_with_new_raw > OldRaw(match_report)
            /\ cf.actual_delta_raw > 0

\* C3: for a non-empty job indicator set the normalized weights sum to 1.0
\* within 1e-6.
C3_WeightsSumToOne ==
  (BuiltReport /\ Len(match_report.d.jd_requirements) > 0) =>
    Abs(SumSeq(Map(LAMBDA r : r.weight, match_report.d.jd_requirements)) - 1000000) <= 1

\* C4: raw_score lies in [0, 1] and ats_score_suggestion in [0, 100].
C4_RawScoreInUnitInterval ==
  BuiltReport =>
    /\ match_report.d.raw_score \in 0..10000
    /\ match_report.d.ats_score_suggestion \in 0..10000

\* C5: score, s_must, s_nice and s_skills of compute_relevant_score lie in [0, 1].
C5_RelevanceInUnitInterval ==
  pc = "scored" =>
    /\ relevance.score \in 0..10000
    /\ relevance.s_must \in 0..10000
    /\ relevance.s_nice \in 0..10000
    /\ relevance.s_skills \in 0..10000

\* the fraction of the job's entries that are present in the candidate's list
FractionPresent(job_list, cv_list) ==
  IF Len(job_list) = 0 THEN 0
  ELSE RoundHalfEven(10000 * Cardinality({i \in 1..Len(job_list) : InList(job_list[i], cv_list)}),
                     Len(job_list))

\* C6: s_must (s_nice) is the fraction of the job's must_have (nice_to_have)
\* entries present in the candidate's corresponding list, 0 for an empty job list.
C6_SkillFractions ==
  pc = "scored" =>
    /\ relevance.s_must = FractionPresent(Get(jd.d, "must_have", <<>>), Get(cv.d, "must_have", <<>>))
    /\ relevance.s_nice = FractionPresent(Get(jd.d, "nice_to_have", <<>>),
                                          Get(cv.d, "nice_to_have", <<>>))

\* the list `validated` of the call that produced `ranked`, in generation order
GenerationOrder ==
  Validated(predicted.counterfactuals, match_report,
            ValidateArgs(val_form).cv, ValidateArgs(val_form).jd)

\* C7: validated_counterfactuals is the generated list in descending order of
\* impact_ratio, entries of equal impact_ratio in generation order.
C7_RankedDescStable ==
  ValidatedOk =>
    LET v == GenerationOrder
        r == ranked.validated_counterfactuals
    IN /\ Len(r) = Len(v)
       /\ \E perm \in Permutations(1..Len(v)) :
            /\ \A k \in 1..Len(v) : r[k] = v[perm[k]]
            /\ \A a, b \in 1..Len(v) :
                 a < b => \/ r[a].impact_ratio > r[b].impact_ratio
                         \/ (r[a].impact_ratio = r[b].impact_ratio /\ perm[a] < perm[b])

\* C7 case: three counterfactuals, two of equal impact_ratio, ranked in an
\* order that differs from the generation order.
C7_Witness ==
  /\ ValidatedOk
  /\ Len(ranked.validated_counterfactuals) >= 3
  /\ ranked.validated_counterfactuals # GenerationOrder
  /\ \E a, b \in 1..Len(ranked.validated_counterfactuals) :
       /\ a < b
       /\ ranked.validated_counterfactuals[a].impact_ratio
            = ranked.validated_counterfactuals[b].impact_ratio
       /\ ranked.validated_counterfactuals[a] # ranked.validated_counterfactuals[b]

\* C8: no call raises; each returns a result or a tagged error value.
C8_NoCallRaises ==
  /\ ~IsRaised(match_report)
  /\ ~IsRaised(relevance)
  /\ ~IsRaised(predicted)
  /\ ~IsRaised(ranked)

LacksField(field) ==
  \/ match_report.kind # "dict"
  \/ field \notin DOMAIN match_report.d

C10_ErrorPropagatedUnchanged ==
  (pc = "validated" /\ IsError(predicted)) => ranked = predicted

\* C10 as amended: when the generator returns an error value, the validator
\* returns an error value of its own, with the fixed message of line 349, and
\* nothing else: no validation and no re-matching take place.
C10_ErrorReplaced ==
  (pc = "validated" /\ IsError(predicted)) =>
    ranked = [error |-> "No predicted counterfactuals available."]

\* C10 case: the generator has rejected the report and the validator was
\* called with a candidate dict that a simulated mutation would choke on.
C10_Witness ==
  /\ pc = "validated"
  /\ IsError(predicted)
  /\ IsError(ranked)
  /\ val_form = "held"
  /\ cv.kind = "dict"
  /\ DOMAIN cv.d # {}

\* C11: no step of build_cv_jd_match, generate_counterfactuals or
\* validate_and_rank_counterfactuals changes an object it was given: the
\* indicators and texts passed in, the report once it is returned and handed
\* to the validator, and the generated counterfactuals while they are
\* validated, keep their values.
C11_ArgumentsUntouched ==
  [][\A p \in Procs :
       /\ args'[p] = args[p]
       /\ (cpc[p] \in {"built", "validate_loop", "done"} => ret'[p].report = ret[p].report)
       /\ (cpc[p] = "validate_loop"
             => frame'[FrameOf(p)].predicted = frame[FrameOf(p)].predicted)]_vars

\* C11 case: an evaluation has validated two counterfactuals or more, and the
\* generated ones still carry their two fields only.
C11_Witness ==
  /\ cpc # <<>>
  /\ cpc[1] = "done"
  /\ "validated_counterfactuals" \in DOMAIN ret[1].ranked
  /\ Len(ret[1].ranked.validated_counterfactuals) >= 2
  /\ \A i \in 1..Len(frame[FrameOf(1)].predicted.counterfactuals) :
       DOMAIN frame[FrameOf(1)].predicted.counterfactuals[i] = {"requirement", "suggested_change"}
  /\ "impact_ratio" \in DOMAIN ret[1].ranked.validated_counterfactuals[1]

\* C12: whatever the interleaving of the steps of the two evaluations, each
\* returns the report and the ranking that the same calls return when they
\* run alone on its arguments.
C12_AsWhenRunAlone ==
  \A p \in DOMAIN cpc :
     /\ cpc[p] \in {"built", "validate_loop", "done"}
          => ret[p].report = PyDict(build_cv_jd_match(args[p].cv, args[p].jd))
     /\ cpc[p] = "done"
          => ret[p].ranked
               = validate_and_rank_counterfactuals(PyDict(build_cv_jd_match(args[p].cv, args[p].jd)),
                                                   args[p].vcv, args[p].vjd, args[p].top_k)

\* C12 case: one evaluation has returned its ranking of two counterfactuals
\* or more while the other, for another candidate, is in the middle of its
\* validation loop, after the first began and before it ended.
C12_Witness ==
  /\ cpc # <<>>
  /\ cpc[1] = "done"
  /\ "validated_counterfactuals" \in DOMAIN ret[1].ranked
  /\ Len(ret[1].ranked.validated_counterfactuals) >= 2
  /\ cpc[2] = "validate_loop"
  /\ Len(frame[FrameOf(2)].validated) = 1
  /\ Len(frame[FrameOf(2)].cfs) >= 2
  /\ ret[2].report # ret[1].report

\* C22: every counterfactual is validated as a single change to the cv the
\* validator was given: the CV of a pass is that cv with this pass's
\* requirement only, and the figures of each validated counterfactual are
\* those of validating it alone.
C22_SingleChange ==
  \A p \in DOMAIN cpc :
     cpc[p] \in {"validate_loop", "done"} =>
       /\ Len(frame[FrameOf(p)].validated) >= 1 =>
            frame[FrameOf(p)].new_cv
              = apply_counterfactual_to_cv(
                  args[p].vcv,
                  frame[FrameOf(p)].cfs[Len(frame[FrameOf(p)].validated)].requirement)
       /\ \A i \in 1..Len(frame[FrameOf(p)].validated) :
            frame[FrameOf(p)].validated[i]
              = Validated(<<frame[FrameOf(p)].cfs[i]>>, ret[p].report, args[p].vcv, args[p].vjd)[1]

\* C22 case: the second pass of a validation loop has run, on a cv text, after
\* a first pass for another requirement.
C22_Witness ==
  /\ cpc # <<>>
  /\ cpc[1] = "validate_loop"
  /\ Len(frame[FrameOf(1)].validated) = 2
  /\ args[1].vcv.kind = "str"
  /\ frame[FrameOf(1)].cfs[1].requirement # frame[FrameOf(1)].cfs[2].requirement
  /\ frame[FrameOf(1)].new_cv = PyStr(CvText \o BulletPrefix \o frame[FrameOf(1)].cfs[2].requirement)

\* a job that carries no requirement: every indicator absent or empty
EmptyJob(j) ==
  /\ Get(j, "must_have", <<>>) = <<>>
  /\ Get(j, "nice_to_have", <<>>) = <<>>
  /\ Get(j, "languages", <<>>) = <<>>
  /\ ~Truthy(Get(j, "years_experience", None))
  /\ ~Truthy(Get(j, "education_level", None))

OneSkillScored == pc = "scored" /\ jd = PyDict(OneSkillJob) /\ cv.d \in OneSkillCvs

\* C14: for the job whose only requirement is must_have ['python'] and a
\* candidate whose only indicator is must_have ['python'],
\* compute_relevant_score returns s_must = 1.0 and score = 0.6.
C14_OneSkillScoreIsSixTenths ==
  OneSkillScored => (relevance.s_must = 10000 /\ relevance.score = 6000)

\* C14 as amended: for that job and candidate, s_must = 1.0, s_nice = 0.0,
\* s_skills = 0.75, the three other sub-scores are 1.0, and score = 0.85.
C14_OneSkillScoreIsWeightedSum ==
  OneSkillScored =>
    /\ relevance.s_must = 10000
    /\ relevance.s_nice = 0
    /\ relevance.s_skills = 7500
    /\ relevance.s_experience = 10000
    /\ relevance.s_education = 10000
    /\ relevance.s_languages = 10000
    /\ relevance.score = 8500

\* C14 case: the one-skill job has been scored against the candidate that
\* gives only must_have.
C14_Witness ==
  /\ OneSkillScored
  /\ DOMAIN cv.d = {"must_have"}
  /\ relevance.s_must = 10000

\* C15: for empty job indicators and any candidate, compute_relevant_score
\* returns score = 0.6.
C15_EmptyJobScoreIsSixTenths ==
  (pc = "scored" /\ EmptyJob(jd.d)) => relevance.score = 6000

\* C15 as amended: for empty job indicators and any candidate, s_skills = 0.0,
\* the three other sub-scores are 1.0, and score = 0.4.
C15_EmptyJobScoreIsFourTenths ==
  (pc = "scored" /\ EmptyJob(jd.d)) =>
    /\ relevance.s_skills = 0
    /\ relevance.s_experience = 10000
    /\ relevance.s_education = 10000
    /\ relevance.s_languages = 10000
    /\ relevance.score = 4000

\* C15 case: an empty job scored against a candidate with skills, years,
\* education and languages.
C15_Witness ==
  /\ pc = "scored"
  /\ EmptyJob(jd.d)
  /\ Len(Get(cv.d, "must_have", <<>>)) > 0
  /\ Truthy(Get(cv.d, "years_experience", None))
  /\ Truthy(Get(cv.d, "education_level", None))
  /\ Get(cv.d, "languages", <<>>) # <<>>

C17_RequirementNamesUnique ==
  BuiltReport =>
    \A i, j \in 1..Len(match_report.d.jd_requirements) :
       i # j => match_report.d.jd_requirements[i].name # match_report.d.jd_requirements[j].name

\* C18: a built report never has matched = true for a requirement whose name
\* is the empty string.
C18_EmptyNameNeverMatched ==
  BuiltReport =>
    \A i \in 1..Len(match_report.d.match_results) :
       match_report.d.match_results[i].requirement = <<>>
         => ~match_report.d.match_results[i].matched

Generated == pc \in {"generated", "validated"} /\ "counterfactuals" \in DOMAIN predicted

\* indices of the unmatched entries of the report handed to the generator
UnmatchedIdx == {i \in 1..Len(match_report.d.match_results) :
                   ~Get(match_report.d.match_results[i], "matched", FALSE)}

\* place of unmatched entry i when the unmatched entries are ordered by
\* descending weight, equal weights in report order
PlaceByWeight(i) ==
  LET W(j) == Get(match_report.d.match_results[j], "weight", 0)
  IN Cardinality({j \in UnmatchedIdx : W(j) > W(i) \/ (W(j) = W(i) /\ j <= i)})

NamesWhere(b) ==
  Map(LAMBDA r : r.requirement,
      Filter(LAMBDA r : Get(r, "matched", FALSE) = b, match_report.d.match_results))

\* C20: the 'preferred' sentence is emitted iff some requirement is matched,
\* the 'lacks' sentence iff some is unmatched, and each lists every matched
\* (unmatched) requirement name of the report.
C20_ExplanationsListAll ==
  Generated =>
    predicted.contrastive_explanations
      = (IF NamesWhere(TRUE) # <<>> THEN <<[fmt |-> "preferred", a |-> NamesWhere(TRUE)]>> ELSE <<>>)
        \o (IF NamesWhere(FALSE) # <<>> THEN <<[fmt |-> "lacks", a |-> NamesWhere(FALSE)]>> ELSE <<>>)

\* C21: each validated counterfactual has effort_cost 1.0 when the unmatched
\* entry it was generated from is must_have and 0.5 otherwise, and
\* impact_ratio = actual_delta_pct / effort_cost, also when two entries of the
\* report share a requirement name.
C21_EffortFromOwnEntry ==
  ValidatedOk =>
    \A i \in 1..Len(GenerationOrder) :
       /\ GenerationOrder[i].effort_cost
            = (IF Get(MissingTop(match_report.d.match_results, top_k)[i], "must_have", FALSE)
               THEN 10 ELSE 5)
       /\ GenerationOrder[i].impact_ratio
            = RoundHalfEven(GenerationOrder[i].actual_delta_pct * 1000,
                            GenerationOrder[i].effort_cost)

BuiltFromDicts == BuiltReport /\ cv.kind = "dict" /\ jd.kind = "dict"

\* C23: cv_mentions has one {name, context} entry for every matched result,
\* in order, and none for an unmatched one, and a result carries evidence iff
\* it is matched.
C23_MentionPerMatch ==
  BuiltReport =>
    /\ match_report.d.cv_mentions
         = Map(LAMBDA r : [name |-> r.requirement, context |-> r.evidence],
               Filter(LAMBDA r : r.matched, match_report.d.match_results))
    /\ \A i \in 1..Len(match_report.d.match_results) :
         match_report.d.match_results[i].matched
           <=> match_report.d.match_results[i].evidence # NoEvidence

JobYears == parse_years(Get(jd.d, "years_experience", None))
CvYears == parse_years(Get(cv.d, "years_experience", None))
YearsResults ==
  {i \in 1..Len(match_report.d.match_results) :
     match_report.d.match_results[i].requirement = YearsName}

\* C24: the years_experience requirement is matched iff the job's value has no
\* number, or the candidate's value has one and its first number is >= the
\* first number of the job's value; for the job '5 yrs' the candidates
\* '3 yrs' and '3 or 10' are unmatched and '6 yrs' and '10' are matched.
C24_YearsByFirstNumber ==
  BuiltFromDicts =>
    \A i \in YearsResults :
       /\ match_report.d.match_results[i].matched
            <=> \/ JobYears = <<>>
                \/ (CvYears # <<>> /\ CvYears[1] * JobYears[2] >= JobYears[1] * CvYears[2])
       /\ JobYears = <<5, 1>> =>
            /\ (CvYears \in {<<3, 1>>, <<>>} => ~match_report.d.match_results[i].matched)
            /\ (CvYears \in {<<6, 1>>, <<10, 1>>} => match_report.d.match_results[i].matched)

\* C24 case: the job asks for 2.5 and the candidate states 2.50; the
\* requirement is matched on equal numbers.
C24_Witness ==
  /\ BuiltFromDicts
  /\ YearsResults # {}
  /\ JobYears = <<25, 10>>
  /\ CvYears = <<250, 100>>
  /\ \A i \in YearsResults : match_report.d.match_results[i].matched

\* C25: when the job specifies an education_level, the requirement is matched
\* iff the candidate specifies a value that equals the job's after trimming
\* and case-folding; a candidate with no value is never matched.
C25_EducationNeedsCandidateValue ==
  (BuiltFromDicts /\ Truthy(Get(jd.d, "education_level", None))) =>
    \A i \in 1..Len(match_report.d.match_results) :
       match_report.d.match_results[i].requirement = EduName =>
         (match_report.d.match_results[i].matched
            <=> /\ Truthy(Get(cv.d, "education_level", None))
                /\ Lower(Strip(cv.d.education_level)) = Lower(Strip(jd.d.education_level)))

\* C26: a requirement that comes from the job's must_have or nice_to_have list
\* is matched iff its name is among the candidate's must_have and nice_to_have
\* tokens, whatever its text, and a requirement that comes from the job's
\* languages iff the language is among the candidate's languages.
C26_MatchedByOrigin ==
  BuiltFromDicts =>
    LET skills == Len(Get(jd.d, "must_have", <<>>)) + Len(Get(jd.d, "nice_to_have", <<>>))
        langs == Get(jd.d, "languages", <<>>)
    IN \A i \in 1..Len(match_report.d.match_results) :
         /\ i <= skills =>
              (match_report.d.match_results[i].matched
                 <=> InList(match_report.d.match_results[i].requirement, CvAllTokens(cv.d)))
         /\ (i > skills /\ i <= skills + Len(langs)) =>
              (match_report.d.match_results[i].matched
                 <=> InList(Lower(langs[i - skills]), CvLangs(cv.d)))

\* an indicator dict with the tokens of its three collections in lower case
CaseFold(d) ==
  [k \in DOMAIN d |->
     IF k \in {"must_have", "nice_to_have", "languages"} THEN Map(Lower, d[k]) ELSE d[k]]

\* C27: a job and a candidate that differ from the ones evaluated only in the
\* letter case of their tokens get the same verdicts and raw_score from
\* build_cv_jd_match and the same sub-scores and score from
\* compute_relevant_score.
C27_CaseInsensitive ==
  (pc \in {"matched", "scored"} /\ source # "supplied" /\ cv.kind = "dict" /\ jd.kind = "dict") =>
    \A j2 \in CaseJobs, c2 \in CaseCvs :
       (CaseFold(j2) = CaseFold(jd.d) /\ CaseFold(c2) = CaseFold(cv.d)) =>
         /\ pc = "scored" => compute_relevant_score(j2, c2) = relevance
         /\ pc = "matched" =>
              /\ build_cv_jd_match(PyDict(c2), PyDict(j2)).raw_score = match_report.d.raw_score
              /\ Map(LAMBDA r : r.matched, build_cv_jd_match(PyDict(c2), PyDict(j2)).match_results)
                   = Map(LAMBDA r : r.matched, match_report.d.match_results)

\* C28: raw_score is the sum of the weights of the matched results rounded to
\* 4 decimals, ats_score_suggestion is raw_score * 100 rounded to 2 decimals,
\* and raw_score is exactly 1.0 when every requirement is matched.
C28_RawScoreIsMatchedWeight ==
  BuiltReport =>
    /\ match_report.d.raw_score
         = RoundHalfEven(SumSeq(Map(LAMBDA r : IF r.matched THEN r.weight ELSE 0,
                                    match_report.d.match_results)), 100)
    /\ match_report.d.ats_score_suggestion = RoundHalfEven(match_report.d.raw_score * 100, 100)
    /\ (match_report.d.match_results # <<>>
          /\ \A i \in 1..Len(match_report.d.match_results) : match_report.d.match_results[i].matched)
         => match_report.d.raw_score = 10000

\* the requirement names the job's indicators stand for, in the order
\* must_have, nice_to_have, languages, years_experience, education_level
NamesInOrder ==
  Map(Lower, Get(jd.d, "must_have", <<>>))
  \o Map(Lower, Get(jd.d, "nice_to_have", <<>>))
  \o Map(LAMBDA x : LangPrefix \o Lower(x), Get(jd.d, "languages", <<>>))
  \o (IF Truthy(Get(jd.d, "years_experience", None)) THEN <<YearsName>> ELSE <<>>)
  \o (IF Truthy(Get(jd.d, "education_level", None)) THEN <<EduName>> ELSE <<>>)

\* C29: match_results has one entry per entry of jd_requirements, in the same
\* order and with the same name, weight and must_have flag; jd_requirements
\* lists must_have, nice_to_have, languages, years_experience,
\* education_level in that order, with must_have = true for the entries of
\* the job's must_have list only.
C29_OneResultPerRequirementInOrder ==
  BuiltFromDicts =>
    /\ Len(match_report.d.jd_requirements) = Len(NamesInOrder)
    /\ Len(match_report.d.match_results) = Len(NamesInOrder)
    /\ \A i \in 1..Len(NamesInOrder) :
         /\ match_report.d.jd_requirements[i].name = NamesInOrder[i]
         /\ match_report.d.jd_requirements[i].must_have
              = (i <= Len(Get(jd.d, "must_have", <<>>)))
         /\ match_report.d.match_results[i].requirement = match_report.d.jd_requirements[i].name
         /\ match_report.d.match_results[i].weight = match_report.d.jd_requirements[i].weight
         /\ match_report.d.match_results[i].must_have = match_report.d.jd_requirements[i].must_have

\* C29 case: a job with requirements of all five kinds, two of them
\* must_have, some met and some not.
C29_Witness ==
  /\ BuiltFromDicts
  /\ Len(Get(jd.d, "must_have", <<>>)) = 2
  /\ Len(Get(jd.d, "nice_to_have", <<>>)) = 1
  /\ Len(Get(jd.d, "languages", <<>>)) = 1
  /\ Truthy(Get(jd.d, "years_experience", None))
  /\ Truthy(Get(jd.d, "education_level", None))
  /\ Len(match_report.d.match_results) = 6
  /\ \E i \in 1..6 : match_report.d.match_results[i].matched
  /\ \E i \in 1..6 : ~match_report.d.match_results[i].matched

\* C30: from the moment a call has assigned its model to the three shared
\* agents until its run ends, the agents hold that model, and each agent of
\* the call's run uses it.
C30_ModelKeptDuringRun ==
  \A r \in DOMAIN rpc :
     /\ rpc[r] \in {"configured", "jd_done", "cv_done", "analyzed"}
          => \A a \in Agents : agent_model[a] = model[r]
     /\ \A a \in Agents : used[r][a] \in {NoModel, model[r]}

====
